---------------------------- MODULE Spec2Model ----------------------------
(***************************************************************************)
(* A model of pyspeckit/spectrum/baseline.py: the Baseline object of a     *)
(* Spectrum, its fit entry point __call__, dofit, _baseline, unsubtract,   *)
(* selectregion, savefit, crop and downsample.                             *)
(*                                                                         *)
(* Arrays are sequences; the sample with (0-based) index i is entry i+1.   *)
(* Sample values and curve values are integers, so that "equal" is exact.  *)
(* A NaN sample is a flag of the host series (the variable nan): adding or *)
(* subtracting a finite curve never changes which samples are NaN.  An     *)
(* infinite sample is a flag of the host series in the same way (inf).     *)
(* An optional value (Python None) is <<>>, a given value v is <<v>>.      *)
(* The session has no plot axis (specplotter.axis is None), so dofit draws *)
(* nothing; mpfit and the feature fit are collaborators whose results are  *)
(* inputs of the fit.  Only the interactive sessions (ClickSpec) have a    *)
(* plot: its canvas delivers the clicks, and what is drawn on it is left   *)
(* out.                                                                    *)
(***************************************************************************)
EXTENDS Integers, Sequences, FiniteSets, TLC

\* ------------------------------------------------------------- bounds
\* Length of the host series at construction.
NSamples == 3
\* Largest coefficient the minimizer may return.
MaxCoef == 1
\* Largest value of an original sample.
MaxSample == 1
\* Distance between neighbouring coordinates of the host's xarr.
CoordStep == 2
\* Most left clicks of one interactive session.
MaxClicks == 3

None == <<>>
Some(v) == <<v>>
IsNone(o) == o = <<>>
Val(o) == o[1]

Min2(a, b) == IF a < b THEN a ELSE b
Max2(a, b) == IF a > b THEN a ELSE b
Abs(a) == IF a < 0 THEN -a ELSE a

\* ------------------------------------------------------------- numpy
\* Python's normalisation of a slice bound k on an array of length n.
SliceBound(k, n) == IF k < 0 THEN Max2(k + n, 0) ELSE Min2(k, n)

\* The 0-based indices a[lo:hi] selects on an array of length n.
SliceIdx(lo, hi, n) == {i \in 0..(n - 1) : SliceBound(lo, n) <= i /\ i < SliceBound(hi, n)}

\* Variant: the slice starts at the first entry whatever x1pix is.
GetSliceFromStart(a, lo, hi) == SubSeq(a, 1, SliceBound(hi, Len(a)) - SliceBound(lo, Len(a)))

\* a[lo:hi]
GetSlice(a, lo, hi) == SubSeq(a, SliceBound(lo, Len(a)) + 1, SliceBound(hi, Len(a)))

\* a[::factor]
Stride(a, factor) == [i \in 1..((Len(a) + factor - 1) \div factor) |-> a[(i - 1) * factor + 1]]

\* a[:] = v
Fill(a, v) == [i \in 1..Len(a) |-> v]

\* a + b and a - b, element by element
AddSeq(a, b) == [i \in 1..Len(a) |-> a[i] + b[i]]
SubSeq2(a, b) == [i \in 1..Len(a) |-> a[i] - b[i]]

\* np.argmin(abs(xarr - v)): the first index of the smallest distance.
Nearest(xs, v) == CHOOSE i \in 0..(Len(xs) - 1) : \A j \in 0..(Len(xs) - 1) : \/ Abs(xs[i + 1] - v) < Abs(xs[j + 1] - v) \/ (Abs(xs[i + 1] - v) = Abs(xs[j + 1] - v) /\ i <= j)

\* np.poly1d(p)(x): coefficients highest degree first.
RECURSIVE PolyEval(_, _)
PolyEval(p, x) == IF Len(p) = 0 THEN 0 ELSE PolyEval(SubSeq(p, 1, Len(p) - 1), x) * x + p[Len(p)]

\* b ** e for an integer exponent e >= 0.
RECURSIVE IPow(_, _)
IPow(b, e) == IF e <= 0 THEN 1 ELSE b * IPow(b, e - 1)

\* p[0] * (x / p[2]) ** (-p[1]), for the parameters the model draws (p[2] = 1, p[1] <= 0).
PowerLawEval(p, x) == p[1] * IPow(x \div p[3], -p[2])

\* xarr.as_unit('pixels'): the coordinate of sample i in pixel units.
PixelCoord(i) == i


\* ------------------------------------------------------------- state
VARIABLES
  \* the host Spectrum
  data,          \* Spectrum.data
  xarr,          \* Spectrum.xarr, the coordinate of every sample
  nan,           \* which samples of Spectrum.data are NaN
  inf,           \* which samples of Spectrum.data are +infinity or -infinity
  error,         \* Spectrum.error, the uncertainty of every sample
  header,        \* Spectrum.header: the BLCOEFnn values written by savefit
  \* the Baseline object
  basespec, excludemask, OKmask, subtracted, bx1, bx2,
  includepix, includevelo, excludepix, excludevelo,
  order, baselinepars, powerlaw, spectofit,
  defined,       \* the attributes among includepix, spectofit, xpectrum that exist on the object
  nclicks_b1,    \* 1 while a first left click waits for its second
  xclick1,       \* _xclick1, once a left click has set it
  xclick2,       \* _xclick2, once a second left click has set it
  connected,     \* the canvas holds the click handler connected by an interactive call
  \* history, read by the properties only
  orig,          \* the series as it would be had nothing ever been subtracted
  pre,           \* data, subtracted and basespec as they were when the last fit call began,
                 \* kept while that call is the last operation or is followed by unsubtract() only
  lastop,        \* the last operation, its arguments and its outcome
  session        \* the left clicks of the interactive session: how many, and the positions of the completed pairs

hostvars == <<data, xarr, nan, inf, error, header>>
basevars == <<basespec, excludemask, OKmask, subtracted, bx1, bx2, includepix, includevelo, excludepix, excludevelo, order, baselinepars, powerlaw, spectofit, defined>>
clickvars == <<nclicks_b1, xclick1, xclick2, connected>>
ghostvars == <<orig, pre, lastop, session>>
vars == <<hostvars, basevars, clickvars, ghostvars>>

\* The Baseline object and the series it works on, as one record.
Cur == [data |-> data, basespec |-> basespec, excludemask |-> excludemask, OKmask |-> OKmask, subtracted |-> subtracted, bx1 |-> bx1, bx2 |-> bx2, includepix |-> includepix, includevelo |-> includevelo, excludepix |-> excludepix, excludevelo |-> excludevelo, order |-> order, baselinepars |-> baselinepars, powerlaw |-> powerlaw, spectofit |-> spectofit, defined |-> defined]

\* The units dofit recognises: coordinate units ('velo', ...) and pixel units ('pix', ...).
CoordUnits == {"velo"}
PixUnits == {"pix"}

\* ------------------------------------------------------------- unsubtract
\* Variants of unsubtract: the curve subtracted once more; the flag left set; the curve added whatever the flag.
UnsubtractedWrongSign(s) == IF s.subtracted THEN [s EXCEPT !.data = SubSeq2(s.data, s.basespec), !.subtracted = FALSE] ELSE s
UnsubtractedKeepFlag(s) == IF s.subtracted THEN [s EXCEPT !.data = AddSeq(s.data, s.basespec)] ELSE s
UnsubtractedUnguarded(s) == [s EXCEPT !.data = AddSeq(s.data, s.basespec), !.subtracted = FALSE]

\* Baseline.unsubtract on the record s.
Unsubtracted(s) == IF s.subtracted THEN [s EXCEPT !.data = AddSeq(s.data, s.basespec), !.subtracted = FALSE] ELSE s

\* ------------------------------------------------------------- dofit
\* Variant: the pair is used as given.
OrderPairNoSwap(xl, xu) == <<xl, xu>>

\* if xl > xu: xl,xu = xu,xl
OrderPair(xl, xu) == IF xl > xu THEN <<xu, xl>> ELSE <<xl, xu>>

\* The index of a list entry: nearest-sample lookup for coordinate units, the entry itself for pixel units.
ToPix(v, units) == IF units \in CoordUnits THEN Nearest(xarr, v) ELSE v

\* The k-th pair of the list as ordered indices (xl, xu).
PixPair(list, units, k) == LET xl == ToPix(list[2 * k - 1], units) xu == ToPix(list[2 * k], units) IN OrderPair(xl, xu)

\* The list of indices the loop accumulates: self.includepix += [xl,xu], self.excludepix += [xl,xu].
PixList(list, units) == [j \in 1..Len(list) |-> PixPair(list, units, (j + 1) \div 2)[2 - (j % 2)]]

\* The indices the loop's slices mask[xl:xu] cover.
PairIdx(list, units, n) == UNION {LET pr == PixPair(list, units, k) IN SliceIdx(pr[1], pr[2], n) : k \in 1..(Len(list) \div 2)}

\* mask with the loop's slices set to v.
SetPairs(mask, list, units, v) == LET idx == PairIdx(list, units, Len(mask)) IN [i \in 1..Len(mask) |-> IF (i - 1) \in idx THEN v ELSE mask[i]]

\* Variant: the mask is not set to all-excluded before the inclusion intervals are cleared.
IncludeStepNoFill(s, a) ==
  IF ~IsNone(a.include) /\ a.includeunits \in (CoordUnits \cup PixUnits)
  THEN IF Len(Val(a.include)) % 2 = 0
       THEN [s EXCEPT !.excludemask = SetPairs(s.excludemask, Val(a.include), a.includeunits, FALSE),
                      !.includevelo = IF a.includeunits \in CoordUnits THEN Val(a.include) ELSE s.includevelo,
                      !.includepix = PixList(Val(a.include), a.includeunits),
                      !.defined = s.defined \cup {"includepix"}]
       ELSE s
  ELSE [s EXCEPT !.includepix = <<>>, !.includevelo = <<>>, !.defined = s.defined \cup {"includepix"}]

\* The include branches of dofit.
IncludeStep(s, a) ==
  IF ~IsNone(a.include) /\ a.includeunits \in (CoordUnits \cup PixUnits)
  THEN IF Len(Val(a.include)) % 2 = 0
       THEN [s EXCEPT !.excludemask = SetPairs(Fill(s.excludemask, TRUE), Val(a.include), a.includeunits, FALSE),
                      !.includevelo = IF a.includeunits \in CoordUnits THEN Val(a.include) ELSE s.includevelo,
                      !.includepix = PixList(Val(a.include), a.includeunits),
                      !.defined = s.defined \cup {"includepix"}]
       ELSE [s EXCEPT !.excludemask = Fill(s.excludemask, TRUE)]
  ELSE [s EXCEPT !.includepix = <<>>, !.includevelo = <<>>, !.defined = s.defined \cup {"includepix"}]

SeqMin(q) == CHOOSE m \in {q[i] : i \in 1..Len(q)} : \A i \in 1..Len(q) : m <= q[i]
SeqMax(q) == CHOOSE m \in {q[i] : i \in 1..Len(q)} : \A i \in 1..Len(q) : m >= q[i]

\* if self.includepix: the window is moved to the bounds of the inclusion list.
WindowStep(s) ==
  IF Len(s.includepix) > 0
  THEN [s EXCEPT !.bx1 = IF s.bx1 < SeqMin(s.includepix) THEN SeqMin(s.includepix) ELSE s.bx1,
                 !.bx2 = IF s.bx2 > SeqMax(s.includepix) THEN SeqMax(s.includepix) ELSE s.bx2]
  ELSE s

\* The exclude branches of dofit.
ExcludeStep(s, a) ==
  IF ~IsNone(a.exclude) /\ a.excludeunits \in (CoordUnits \cup PixUnits)
  THEN IF Len(Val(a.exclude)) % 2 = 0
       THEN [s EXCEPT !.excludemask = SetPairs(s.excludemask, Val(a.exclude), a.excludeunits, TRUE),
                      !.excludevelo = IF a.excludeunits \in CoordUnits THEN Val(a.exclude) ELSE s.excludevelo,
                      !.excludepix = PixList(Val(a.exclude), a.excludeunits)]
       ELSE s
  ELSE [s EXCEPT !.excludepix = <<>>, !.excludevelo = <<>>]

\* OK_edges: true inside [bx1, bx2).
OKEdges(s) == LET n == Len(s.OKmask) out == SliceIdx(0, s.bx1, n) \cup SliceIdx(s.bx2, n, n) IN [i \in 1..n |-> (i - 1) \notin out]

\* mask=((True-self.OKmask)+self.excludemask)+(True-OK_edges)
FitMask(s) == LET edges == OKEdges(s) IN [i \in 1..Len(s.OKmask) |-> (~s.OKmask[i]) \/ s.excludemask[i] \/ ~edges[i]]

\* _baseline's xmin and xmax: the keyword when given, else (a mask is always given) the whole array.
BaselineXmin(a) == IF IsNone(a.xmin) THEN 0 ELSE Val(a.xmin)
BaselineXmax(a, n) == IF IsNone(a.xmax) THEN n ELSE Val(a.xmax)

\* OK = True-mask; OK[:xmin] = False; OK[xmax:] = False: the samples handed to the minimizer.
FitOK(mask, a) == LET n == Len(mask) out == SliceIdx(0, BaselineXmin(a), n) \cup SliceIdx(BaselineXmax(a, n), n, n) IN [i \in 1..n |-> (~mask[i]) /\ (i - 1) \notin out]

\* Variant: sample i is given the model's value at the coordinate of the sample after it.
CurveOffByOne(p, pl, n) == [i \in 1..n |-> IF pl THEN PowerLawEval(p, PixelCoord(i)) ELSE PolyEval(p, PixelCoord(i))]

\* The curve of the parameters p over every sample of the current series.
Curve(p, pl, n) == [i \in 1..n |-> IF pl THEN PowerLawEval(p, PixelCoord(i - 1)) ELSE PolyEval(p, PixelCoord(i - 1))]

\* Variant: the curve is subtracted and the flag is not set.
SubtractStepNoFlag(s, a) ==
  IF a.subtract
  THEN [s EXCEPT !.data = SubSeq2(s.data, s.basespec)]
  ELSE [Unsubtracted(s) EXCEPT !.subtracted = FALSE]

\* The end of dofit: subtract the new curve, or leave the series unsubtracted.
SubtractStep(s, a) ==
  IF a.subtract
  THEN IF s.subtracted /\ a.fit_original
       THEN [s EXCEPT !.data = SubSeq2(s.spectofit, s.basespec), !.subtracted = TRUE]
       ELSE [s EXCEPT !.data = SubSeq2(s.data, s.basespec), !.subtracted = TRUE]
  ELSE [Unsubtracted(s) EXCEPT !.subtracted = FALSE]

\* What a dofit call leaves: the object, whether it returned, where it stopped, and the mask it passed on.
Stopped(s, stage, mask, used, err) == [s |-> s, ok |-> FALSE, stage |-> stage, mask |-> mask, used |-> used, err |-> err]
Returned(s, mask, used, err) == [s |-> s, ok |-> TRUE, stage |-> "done", mask |-> mask, used |-> used, err |-> err]

\* The uncertainty _baseline gives a sample it keeps out of the fit: 1e10 in the source,
\* 10^9 here (the largest power of ten among TLC's integers), far above every host uncertainty.
BigErr == IPow(10, 9)

\* _baseline's err: a copy of the host's uncertainties with 1 for every zero,
\* and BigErr before xmin, from xmax on, and on every masked sample.
Weights(e, mask, a) == LET n == Len(e) out == SliceIdx(0, BaselineXmin(a), n) \cup SliceIdx(BaselineXmax(a, n), n, n) IN [i \in 1..n |-> IF (i - 1) \in out \/ mask[i] THEN BigErr ELSE IF e[i] = 0 THEN 1 ELSE e[i]]

\* Variant: _baseline writes into the host's array.
HostErrorShared(e, w) == w

\* The host's uncertainties after _baseline: err = err.copy() keeps every write in the copy w.
HostError(e, w) == e

\* _baseline and the rest of dofit, entered with the series unsubtracted.
\* env.mp is what mpfit returns, env.dbg what the debugger session opened on a NaN sample does.
\* Only a NaN statistic is refused (np.isnan): an infinite one is taken like a finite one.
FitStep(s, a, env) ==
  LET mask == FitMask(s)
      used == FitOK(mask, a)
      hasnan == \E i \in 1..Len(s.OKmask) : ~s.OKmask[i]
      fitted == [s EXCEPT !.baselinepars = Some(env.mp.params), !.powerlaw = a.powerlaw, !.basespec = Curve(env.mp.params, a.powerlaw, Len(xarr))]
      err == Some(Weights(error, mask, a))
  IN  IF hasnan /\ env.dbg = "quit" THEN Stopped(s, "debugger", Some(mask), None, err)
      ELSE IF a.powerlaw /\ (\A i \in 1..Len(used) : ~used[i]) THEN Stopped(s, "pguess", Some(mask), None, err)
      ELSE IF env.mp.fnorm = "nan" THEN Stopped(s, "chi2", Some(mask), Some(used), err)
      ELSE Returned(SubtractStep(fitted, a), Some(mask), Some(used), err)

\* Baseline.dofit on the record s with the keywords a.
DoFit(s, a, env) ==
  LET s1 == IncludeStep(s, a)
      s2 == ExcludeStep(WindowStep(s1), a)
      s3 == Unsubtracted(s2)
  IN  IF "includepix" \notin s1.defined THEN Stopped(s1, "includepix", None, None, None)
      ELSE IF Len(s3.spectofit) # Len(s3.OKmask) \/ Len(s3.excludemask) # Len(s3.OKmask) THEN Stopped(s3, "length", None, None, None)
      ELSE FitStep(s3, a, env)


\* ------------------------------------------------------------- selectregion
\* Baseline.selectregion with xmin, xmax (optional), xtype, and the plotter's xmin, xmax (optional).
SelectRegion(s, xmin, xmax, xtype, plot) ==
  LET b == IF ~IsNone(xmin) /\ ~IsNone(xmax)
           THEN IF xtype = "wcs" THEN <<Nearest(xarr, Val(xmin)), Nearest(xarr, Val(xmax))>> ELSE <<Val(xmin), Val(xmax)>>
           ELSE IF ~IsNone(plot) THEN <<Nearest(xarr, Val(plot)[1]), Nearest(xarr, Val(plot)[2])>>
           ELSE <<0, Len(s.data)>>
  IN  [s EXCEPT !.bx1 = OrderPair(b[1], b[2])[1], !.bx2 = OrderPair(b[1], b[2])[2]]

\* ------------------------------------------------------------- __call__
\* exclusionlevel, in hundredths: the default 0.01.
ExclusionLevelPct == 1

\* min(specfit.modelpars[0::3]): the smallest amplitude of the feature fit.
MinAmplitude(modelpars) == SeqMin([k \in 1..((Len(modelpars) + 2) \div 3) |-> modelpars[3 * (k - 1) + 1]])

\* abs(specfit.model) > exclusionlevel*abs(min(specfit.modelpars[0::3]))
FeatureMask(feat) == [i \in 1..Len(feat.model) |-> Abs(feat.model[i]) * 100 > ExclusionLevelPct * Abs(MinAmplitude(feat.modelpars))]

\* Variant: the current series, whatever fit_original says.
SpecToFitCurrent(s, fit_original) == s.data

\* The series the fit is computed on.
SpecToFit(s, fit_original) == IF s.subtracted /\ fit_original THEN AddSeq(s.data, s.basespec) ELSE s.data

\* __call__ up to the choice between the interactive and the direct fit.
\* OKmask = (spectofit==spectofit) is false on the NaN samples only: an infinite sample equals itself.
CallStart(s, c) ==
  [s EXCEPT !.order = Some(c.order),
            !.spectofit = SpecToFit(s, c.fit_original),
            !.OKmask = [i \in 1..Len(s.data) |-> ~nan[i]],
            !.defined = s.defined \cup {"spectofit"}]

\* The mask __call__ starts dofit with: the feature mask, or nothing excluded.
CallMask(s, c, env) == IF c.excludefit /\ ~IsNone(env.feat) THEN FeatureMask(Val(env.feat)) ELSE Fill(s.excludemask, FALSE)

\* The window selectregion leaves for dofit.
CallWindow(s, c, env) == LET s1 == SelectRegion(CallStart(s, c), c.xmin, c.xmax, "wcs", env.plot) IN <<s1.bx1, s1.bx2>>

\* __call__ without interactive: selectregion, the starting mask, dofit.
CallFit(s, c, env) ==
  LET s1 == SelectRegion(CallStart(s, c), c.xmin, c.xmax, "wcs", env.plot)
  IN  DoFit([s1 EXCEPT !.excludemask = CallMask(s1, c, env)], c, env)

\* savefit: BLCOEFnn of the header is set for every parameter.
SavedHeader(h, pars) == IF IsNone(pars) THEN h ELSE [i \in 1..Max2(Len(h), Len(Val(pars))) |-> IF i <= Len(Val(pars)) THEN Val(pars)[i] ELSE h[i]]

\* The object after the operation, from the record s.
Store(s) ==
  /\ data' = s.data /\ basespec' = s.basespec /\ excludemask' = s.excludemask /\ OKmask' = s.OKmask
  /\ subtracted' = s.subtracted /\ bx1' = s.bx1 /\ bx2' = s.bx2
  /\ includepix' = s.includepix /\ includevelo' = s.includevelo
  /\ excludepix' = s.excludepix /\ excludevelo' = s.excludevelo
  /\ order' = s.order /\ baselinepars' = s.baselinepars /\ powerlaw' = s.powerlaw
  /\ spectofit' = s.spectofit /\ defined' = s.defined

\* How a fit call ended, for the history.
FitTag(ok, subtract) == IF ~ok THEN "fit_failed" ELSE IF subtract THEN "fit_subtracted" ELSE "fit_notsubtracted"

Snapshot == [data |-> data, subtracted |-> subtracted, basespec |-> basespec]

\* sp.baseline(order=..., ...): __call__ with interactive=False.
Call(c, env) ==
  \E r \in {CallFit(Cur, c, env)} :
      /\ Store(r.s)
      /\ header' = IF r.ok /\ c.save THEN SavedHeader(header, r.s.baselinepars) ELSE header
      /\ error' = IF IsNone(r.err) THEN error ELSE HostError(error, Val(r.err))
      /\ UNCHANGED <<xarr, nan, inf, orig, clickvars, session>>
      /\ pre' = Some(Snapshot)
      /\ lastop' = [name |-> "call", tag |-> FitTag(r.ok, c.subtract), ok |-> r.ok, stage |-> r.stage, args |-> c, was |-> subtracted,
                    feat |-> IF c.excludefit /\ ~IsNone(env.feat) THEN Some(FeatureMask(Val(env.feat))) ELSE None,
                    mask |-> r.mask, used |-> r.used, err |-> r.err,
                    win |-> CallWindow(Cur, c, env),
                    fnorm |-> IF IsNone(r.used) THEN None ELSE Some(env.mp.fnorm)]

\* sp.baseline.unsubtract()
Unsubtract ==
  /\ Store(Unsubtracted(Cur))
  /\ UNCHANGED <<xarr, nan, inf, error, header, orig, pre, clickvars, session>>
  /\ lastop' = [name |-> "unsubtract", tag |-> "unsubtract", was |-> subtracted, after |-> lastop.tag]


\* sp.baseline.selectregion(xmin=..., xmax=..., xtype=...)
SelectRegionCall(xmin, xmax, xtype, plot) ==
  /\ Store(SelectRegion(Cur, xmin, xmax, xtype, plot))
  /\ UNCHANGED <<xarr, nan, inf, error, header, orig, clickvars, session>>
  /\ pre' = None
  /\ lastop' = [name |-> "selectregion", tag |-> "selectregion"]

\* sp.baseline.savefit()
SaveFit ==
  /\ header' = SavedHeader(header, baselinepars)
  /\ UNCHANGED <<data, xarr, nan, inf, error, basevars, orig, clickvars, session>>
  /\ pre' = None
  /\ lastop' = [name |-> "savefit", tag |-> "savefit"]

\* Spectrum.crop(x1pix, x2pix), which slices the host's arrays and calls Baseline.crop.
Crop(x1pix, x2pix) ==
  /\ data' = GetSlice(data, x1pix, x2pix)
  /\ xarr' = GetSlice(xarr, x1pix, x2pix)
  /\ nan' = GetSlice(nan, x1pix, x2pix)
  /\ inf' = GetSlice(inf, x1pix, x2pix)
  /\ error' = GetSlice(error, x1pix, x2pix)
  /\ orig' = GetSlice(orig, x1pix, x2pix)
  /\ basespec' = GetSlice(basespec, x1pix, x2pix)
  /\ excludemask' = GetSlice(excludemask, x1pix, x2pix)
  /\ OKmask' = GetSlice(OKmask, x1pix, x2pix)
  /\ UNCHANGED <<header, subtracted, bx1, bx2, includepix, includevelo, excludepix, excludevelo, order, baselinepars, powerlaw, spectofit, defined, clickvars, session>>
  /\ pre' = None
  /\ lastop' = [name |-> "crop", tag |-> "crop", args |-> <<x1pix, x2pix>>]

\* The host's downsampling by a factor, which strides its arrays and calls Baseline.downsample.
Downsample(factor) ==
  /\ data' = Stride(data, factor)
  /\ xarr' = Stride(xarr, factor)
  /\ nan' = Stride(nan, factor)
  /\ inf' = Stride(inf, factor)
  /\ error' = Stride(error, factor)
  /\ orig' = Stride(orig, factor)
  /\ basespec' = Stride(basespec, factor)
  /\ excludemask' = Stride(excludemask, factor)
  /\ OKmask' = Stride(OKmask, factor)
  /\ UNCHANGED <<header, subtracted, bx1, bx2, includepix, includevelo, excludepix, excludevelo, order, baselinepars, powerlaw, spectofit, defined, clickvars, session>>
  /\ pre' = None
  /\ lastop' = [name |-> "downsample", tag |-> "downsample"]

\* The keywords of a fit call that only concern the session: no region is selected.
Keywords(ord, sub, fo) == [order |-> ord, excludefit |-> FALSE, exclude |-> None, fit_original |-> fo, save |-> TRUE, xmin |-> None, xmax |-> None, include |-> None, includeunits |-> "velo", excludeunits |-> "velo", subtract |-> sub, powerlaw |-> FALSE]

\* ------------------------------------------------------------- interactive selection
\* __call__ with interactive=True, before the handler is connected: nothing is included yet.
InteractiveStart(s, c) ==
  [CallStart(s, c) EXCEPT !.excludemask = Fill(s.excludemask, TRUE),
                          !.excludevelo = <<>>, !.excludepix = <<>>,
                          !.includevelo = <<>>, !.includepix = <<>>,
                          !.defined = @ \cup {"includepix"}]

\* sp.baseline(interactive=True, ...): the handler is connected, and savefit follows.
InteractiveCall(c) ==
  /\ ~connected
  /\ Store(InteractiveStart(Cur, c))
  /\ connected' = TRUE
  /\ header' = IF c.save THEN SavedHeader(header, baselinepars) ELSE header
  /\ UNCHANGED <<xarr, nan, inf, error, orig, nclicks_b1, xclick1, xclick2>>
  /\ pre' = None
  /\ lastop' = [name |-> "interactive", tag |-> "interactive", args |-> c]
  /\ session' = [left |-> 0, pairs |-> <<>>]

\* The second left click of a pair, at the ordered positions pr: the window and the mask are
\* updated, and the two lists are extended by a statement that first reads self.xpectrum.
PairedClick(s, pr) ==
  LET idx == SliceIdx(pr[1], pr[2], Len(s.excludemask))
      s1 == [s EXCEPT !.bx1 = IF s.bx1 < pr[2] THEN pr[2] ELSE s.bx1,
                      !.bx2 = IF s.bx2 > pr[1] THEN pr[1] ELSE s.bx2,
                      !.excludemask = [i \in 1..Len(s.excludemask) |-> IF (i - 1) \in idx THEN FALSE ELSE s.excludemask[i]]]
  IN  IF "xpectrum" \in s.defined
      THEN [s1 EXCEPT !.includevelo = s.includevelo \o <<xarr[pr[1] + 1], xarr[pr[2] + 1]>>,
                      !.includepix = s.includepix \o <<pr[1], pr[2]>>]
      ELSE s1

\* selectregion_interactive on a left click (button 1) at the sample xpix.
LeftClick(xpix) ==
  /\ connected
  /\ session.left < MaxClicks
  /\ IF nclicks_b1 = 0
     THEN /\ nclicks_b1' = 1
          /\ xclick1' = Some(xpix)
          /\ UNCHANGED <<xclick2, basevars>>
     ELSE /\ nclicks_b1' = 0
          /\ xclick1' = Some(OrderPair(Val(xclick1), xpix)[1])
          /\ xclick2' = Some(OrderPair(Val(xclick1), xpix)[2])
          /\ Store(PairedClick(Cur, OrderPair(Val(xclick1), xpix)))
  /\ UNCHANGED <<data, xarr, nan, inf, error, header, orig, connected>>
  /\ pre' = None
  /\ lastop' = [name |-> "click", tag |-> IF nclicks_b1 = 0 THEN "first" ELSE "second", args |-> xpix]
  /\ session' = [left |-> session.left + 1, pairs |-> IF nclicks_b1 = 0 THEN session.pairs ELSE Append(session.pairs, <<Val(xclick1), xpix>>)]

\* The keywords of the dofit call a middle or right click makes.
ClickKeywords == [Keywords(Val(order), TRUE, FALSE) EXCEPT !.include = Some(includepix), !.includeunits = "pix"]

\* selectregion_interactive on a middle or right click (button 2 or 3): disconnect, then dofit.
EndClick(env) ==
  /\ connected
  /\ connected' = FALSE
  /\ \E r \in {DoFit(Cur, ClickKeywords, env)} :
       /\ Store(r.s)
       /\ error' = IF IsNone(r.err) THEN error ELSE HostError(error, Val(r.err))
       /\ lastop' = [name |-> "endclick", tag |-> "endclick", ok |-> r.ok, stage |-> r.stage, args |-> ClickKeywords, mask |-> r.mask, used |-> r.used, armed |-> nclicks_b1 = 1]
  /\ UNCHANGED <<xarr, nan, inf, header, orig, nclicks_b1, xclick1, xclick2, session>>
  /\ pre' = None

\* ------------------------------------------------------------- construction
\* The coordinates of a series of n samples.
Coords(n) == [i \in 1..n |-> CoordStep * i]

\* The series a session may start from, and the samples of it that may be NaN.
SampleSeries == {[i \in 1..NSamples |-> MaxSample + i]}
NanFlags == {[i \in 1..NSamples |-> i = k] : k \in 0..1}

\* No sample is flagged.
NoFlags == [i \in 1..NSamples |-> FALSE]

\* The uncertainties of the host: the last sample's is zero.
ErrSeries == {[i \in 1..NSamples |-> IF i = NSamples THEN 0 ELSE 1]}

\* Baseline.__init__ on a Spectrum with the series q, its NaN and infinite samples nf and jf, and the uncertainties e.
Constructed(q, nf, jf, e) ==
  /\ data = q
  /\ nan = nf
  /\ inf = jf
  /\ error = e
  /\ xarr = Coords(NSamples)
  /\ header = <<>>
  /\ orig = data
  /\ baselinepars = None
  /\ order = None
  /\ basespec = [i \in 1..NSamples |-> 0]
  /\ excludemask = [i \in 1..NSamples |-> FALSE]
  /\ OKmask = [i \in 1..NSamples |-> TRUE]
  /\ excludevelo = <<>>
  /\ excludepix = <<>>
  /\ subtracted = FALSE
  /\ bx1 = 0
  /\ bx2 = NSamples - 1
  /\ includevelo = <<Coords(NSamples)[1], Coords(NSamples)[NSamples]>>
  /\ powerlaw = FALSE
  /\ includepix = <<>>
  /\ spectofit = <<>>
  /\ defined = {}
  /\ nclicks_b1 = 0
  /\ xclick1 = None
  /\ xclick2 = None
  /\ connected = FALSE
  /\ pre = None
  /\ lastop = [name |-> "init", tag |-> "init"]
  /\ session = [left |-> 0, pairs |-> <<>>]

\* A session on a finite series that may hold a NaN.
Init == \E q \in SampleSeries : \E nf \in NanFlags : \E e \in ErrSeries : Constructed(q, nf, NoFlags, e)

\* ------------------------------------------------------------- inputs
\* What mpfit may return for a polynomial of order k: any constant term up to MaxCoef under leading terms of 1.
PolyParams(k) == {p \in [1..(k + 1) -> 0..MaxCoef] : \A j \in 1..k : p[j] = 1}
PowerLawParams == {<<amp, 0 - e, 1>> : amp \in 1..MaxCoef, e \in 0..1}
MpResults(c, norms) == {[params |-> IF f = "nan" THEN <<>> ELSE p, fnorm |-> f] : p \in (IF c.powerlaw THEN PowerLawParams ELSE PolyParams(c.order)), f \in norms}

SessionCalls == {Keywords(ord, sub, fo) : ord \in 0..1, sub \in BOOLEAN, fo \in BOOLEAN}

\* What the collaborators give a fit: no feature fit and no plotter window; any result of mpfit;
\* and, when a sample is NaN, a debugger session that is continued or quit.
Envs(c) == {[feat |-> None, plot |-> None, mp |-> m, dbg |-> "continue"] : m \in MpResults(c, {"finite", "nan"})} \cup {[feat |-> None, plot |-> None, mp |-> [params |-> <<>>, fnorm |-> "nan"], dbg |-> "quit"] : i \in {j \in 1..Len(nan) : nan[j]}}

SessionFit == \E c \in SessionCalls : \E env \in Envs(c) : Call(c, env)

\* The host is cropped at either end, or downsampled, once.
HostCrop == Len(data) = NSamples /\ \E x \in {<<0, NSamples - 1>>, <<1, NSamples>>} : Crop(x[1], x[2])
HostDownsample == Len(data) = NSamples /\ Downsample(2)

\* The window is chosen by default, in coordinate units, or in pixel units.
SessionSelectRegion == \E w \in {<<None, None, "wcs">>, <<Some(CoordStep - 1), Some(CoordStep + 1), "wcs">>, <<Some(1), Some(NSamples), "pixel">>} : SelectRegionCall(w[1], w[2], w[3], None)

Next ==
  \/ SessionFit
  \/ Unsubtract
  \/ SaveFit
  \/ HostCrop
  \/ HostDownsample
  \/ SessionSelectRegion

Spec == Init /\ [][Next]_vars


\* ------------------------------------------------------------- one fit with a region
\* Pixel values and coordinate values a list may hold: every index and the length;
\* a coordinate below the first sample, one between the first two samples, one past the last.
PixVals == 0..NSamples
CoordVals == {CoordStep - 1, CoordStep + CoordStep \div 2, CoordStep * NSamples + 1}

\* The lists over the values V: empty, malformed (one endpoint), every pair, and one of two pairs.
Lists(V) == {<<>>} \cup {<<v>> : v \in {CHOOSE w \in V : TRUE}} \cup {<<v, w>> : v, w \in V} \cup {<<v, v, w, w + 1>> : v \in {0}, w \in {NSamples - 1}}

\* An optional list with its units.
RegionArgs == {<<None, "velo">>} \cup {<<Some(l), "pix">> : l \in Lists(PixVals)} \cup {<<Some(l), "velo">> : l \in Lists(CoordVals)}

\* A feature fit of one line of amplitude 4 centred on sample k, with a wing of 1/400 of it.
FeatureFit(k) == [model |-> [i \in 1..Len(data) |-> IF i - 1 = k THEN 400 ELSE 1], modelpars |-> <<400, k, 1>>]

RegionCall(inc, exc, w, ef) == [order |-> 0, excludefit |-> ef, exclude |-> exc[1], fit_original |-> TRUE, save |-> TRUE, xmin |-> w[1], xmax |-> w[2], include |-> inc[1], includeunits |-> inc[2], excludeunits |-> exc[2], subtract |-> TRUE, powerlaw |-> FALSE]

RegionCalls == {RegionCall(inc, exc, w, ef) : inc \in RegionArgs, exc \in RegionArgs, w \in {<<None, None>>, <<Some(CoordStep - 1), Some(2 * CoordStep)>>}, ef \in BOOLEAN}

\* The fits that may come before the fit with a region: they leave includepix and the window behind.
SeedCalls == {RegionCall(<<None, "velo">>, <<None, "velo">>, <<None, None>>, FALSE), RegionCall(<<Some(<<1, 2>>), "pix">>, <<None, "velo">>, <<None, None>>, FALSE)}

RegionEnvs == {[feat |-> f, plot |-> None, mp |-> [params |-> <<MaxCoef>>, fnorm |-> "finite"], dbg |-> "continue"] : f \in {None, Some(FeatureFit(1))}}

\* A fit with a region, after any number of the seed fits.
RegionFit == (lastop.name = "init" \/ (lastop.name = "call" /\ lastop.args \in SeedCalls)) /\ \E c \in RegionCalls : \E env \in RegionEnvs : Call(c, env)

RegionNext == RegionFit

RegionSpec == Init /\ [][RegionNext]_vars


\* ------------------------------------------------------------- fits of any outcome
\* The series a fit may be given: all samples positive, or the first sample not positive.
FitSeries == {[i \in 1..NSamples |-> MaxSample + i], [i \in 1..NSamples |-> i - MaxSample]}

\* The last sample may be infinite.
InfFlags == {[i \in 1..NSamples |-> i = k] : k \in {0, NSamples}}

\* A session on a series that may hold a NaN, an infinite sample, or a sample that is not positive.
FitInit == \E q \in FitSeries : \E nf \in NanFlags : \E jf \in InfFlags : \E e \in ErrSeries : Constructed(q, nf, jf, e)

\* A polynomial or power-law fit of the original series, over all of it or over the samples from 1 on.
FitCalls == {[Keywords(ord, sub, TRUE) EXCEPT !.powerlaw = pl, !.include = inc, !.includeunits = "pix"] : ord \in 0..1, sub \in BOOLEAN, pl \in BOOLEAN, inc \in {None, Some(<<1, NSamples>>)}}

\* What the collaborators give such a fit: mpfit may report a finite, a NaN or an infinite statistic.
FitEnvs(c) == {[feat |-> None, plot |-> None, mp |-> m, dbg |-> d] : m \in MpResults(c, {"finite", "nan", "inf"}), d \in {"continue"} \cup {"quit" : j \in {i \in 1..Len(nan) : nan[i]}}}

\* The fits that may come before: polynomial fits of order 0 over the whole series.
FitSeedCalls == {c \in FitCalls : c.order = 0 /\ ~c.powerlaw /\ IsNone(c.include)}

\* A fit of any outcome, after any number of the seed fits.
FitCall == (lastop.name = "init" \/ (lastop.name = "call" /\ lastop.args \in FitSeedCalls)) /\ \E c \in FitCalls : \E env \in FitEnvs(c) : Call(c, env)

FitNext == FitCall

FitSpec == FitInit /\ [][FitNext]_vars


\* ------------------------------------------------------------- interactive sessions
\* The interactive calls: order 0 or 1, on the original or on the current series.
ClickCalls == {Keywords(ord, TRUE, fo) : ord \in 0..1, fo \in BOOLEAN}

\* What mpfit gives the fit of a middle or right click.
ClickEnvs == {[feat |-> None, plot |-> None, mp |-> m, dbg |-> "continue"] : m \in MpResults(ClickKeywords, {"finite"})}

SessionStart == \E c \in ClickCalls : InteractiveCall(c)
SessionLeftClick == \E xpix \in 0..(NSamples - 1) : LeftClick(xpix)
SessionEndClick == connected /\ \E env \in ClickEnvs : EndClick(env)

ClickNext ==
  \/ SessionStart
  \/ SessionLeftClick
  \/ SessionEndClick

ClickSpec == Init /\ [][ClickNext]_vars


\* ------------------------------------------------------------- properties
ZeroCurve(b) == \A i \in 1..Len(b) : b[i] = 0
FitReturned == lastop.name = "call" /\ lastop.ok

\* The series the session unsubtracts to, seen from the state the last fit call began in.
PreFitOriginal == IF Val(pre).subtracted THEN AddSeq(Val(pre).data, Val(pre).basespec) ELSE Val(pre).data

\* C1 as stated: unsubtract() right after a successful fit with subtract=True leaves the series
\* the host held before the fit call, and subtracted = False.
RoundTripRestoresPreFit == (lastop.name = "unsubtract" /\ lastop.after = "fit_subtracted") => (~subtracted /\ data = Val(pre).data)

\* C1 (amended): unsubtract() right after a successful fit with subtract=True leaves subtracted = False
\* and the unsubtracted series: the series held before the fit call when the session was not
\* subtracted then, and that series plus the curve stored then when it was.
RoundTripRestoresOriginal == (lastop.name = "unsubtract" /\ lastop.after = "fit_subtracted") => (~subtracted /\ data = PreFitOriginal)

\* C1 witness: unsubtract() has undone a fit that subtracted a non-zero curve.
RoundTripWitness == lastop.name = "unsubtract" /\ lastop.after = "fit_subtracted" /\ lastop.was /\ ~ZeroCurve(basespec) /\ data = Val(pre).data

\* C2 as stated: subtracted is true exactly when the series is the original minus basespec,
\* and when it is false the series is the original.
FlagIffSubtracted == (subtracted <=> data = SubSeq2(orig, basespec)) /\ (~subtracted => data = orig)

\* C2 (amended): when subtracted is true the series is the original minus basespec, and when it is
\* false the series is the original (which is also the original minus basespec for an all-zero curve).
FlagInvariant == (subtracted => data = SubSeq2(orig, basespec)) /\ (~subtracted => data = orig)

\* C2 witness: a subtracted session with a non-zero curve has been cropped.
FlagWitness == subtracted /\ lastop.name = "crop" /\ ~ZeroCurve(basespec) /\ data # orig

\* C3 as stated: a fit that fails with the chi^2 error leaves the series and the flag as they were before the call.
FailedFitLeavesSession == (lastop.name = "call" /\ ~lastop.ok /\ lastop.stage = "chi2") => (data = Val(pre).data /\ subtracted = Val(pre).subtracted)

\* C4: a successful fit with fit_original=True and subtract=True is computed on the original series,
\* and leaves the original series minus the curve of the newest parameters only.
RefitFromOriginal == (FitReturned /\ lastop.args.fit_original /\ lastop.args.subtract) => (spectofit = orig /\ basespec = Curve(Val(baselinepars), powerlaw, Len(data)) /\ data = SubSeq2(orig, basespec))

\* C4 witness: such a fit was made on a session that was subtracted by another curve.
RefitWitness == FitReturned /\ lastop.args.fit_original /\ lastop.args.subtract /\ lastop.was /\ ~ZeroCurve(Val(pre).basespec) /\ Val(pre).basespec # basespec

\* C5 as stated: after a successful fit with subtract=True the series is the series handed to the fit minus the new curve.
SubtractedFromFitSeries == (FitReturned /\ lastop.args.subtract) => data = SubSeq2(spectofit, basespec)

\* C6: a successful fit leaves subtracted equal to its subtract argument, with the original series
\* when that is false; unsubtract() leaves it false; crop, downsample, selectregion and savefit do not change it.
FlagTransitions ==
  [][/\ (lastop'.name = "call" /\ lastop'.ok) => (subtracted' = lastop'.args.subtract /\ (~lastop'.args.subtract => data' = orig'))
     /\ (lastop'.name = "unsubtract") => ~subtracted'
     /\ (lastop'.name \in {"crop", "downsample", "selectregion", "savefit"}) => (subtracted' = subtracted)]_vars

\* C6 witness: a fit with subtract=False was made on a session subtracted by a non-zero curve.
FlagTransitionWitness == FitReturned /\ ~lastop.args.subtract /\ lastop.was /\ ~ZeroCurve(Val(pre).basespec) /\ ~subtracted

\* C7: unsubtract() leaves subtracted false; called when subtracted is false, and so when called
\* right after another unsubtract(), it changes nothing of the host or of the Baseline object.
UnsubtractIdempotent ==
  [][(lastop'.name = "unsubtract") => /\ ~subtracted'
                                       /\ (~subtracted \/ lastop.name = "unsubtract") => UNCHANGED <<hostvars, basevars>>]_vars

\* C7 witness: unsubtract() was called twice in a row after a fit.
UnsubtractTwiceWitness == lastop.name = "unsubtract" /\ lastop.after = "unsubtract" /\ ~lastop.was /\ ~IsNone(pre) /\ ~ZeroCurve(basespec)

\* The mask of the last fit call, when dofit got as far as passing one to _baseline.
FitReached == lastop.name = "call" /\ ~IsNone(lastop.mask)
PassedMask == Val(lastop.mask)
EvenList(o) == ~IsNone(o) /\ Len(Val(o)) % 2 = 0

\* The k-th pair of a list as sample indices (lo, hi) with lo <= hi.
NormPair(list, units, k) == <<Min2(ToPix(list[2 * k - 1], units), ToPix(list[2 * k], units)), Max2(ToPix(list[2 * k - 1], units), ToPix(list[2 * k], units))>>

\* The sample indices strictly inside, and inside [lo, hi) of, a pair of the optional list o.
StrictlyInside(o, units) == IF IsNone(o) THEN {} ELSE {i \in 0..(Len(data) - 1) : \E k \in 1..(Len(Val(o)) \div 2) : NormPair(Val(o), units, k)[1] < i /\ i < NormPair(Val(o), units, k)[2]}
Inside(o, units) == IF IsNone(o) THEN {} ELSE {i \in 0..(Len(data) - 1) : \E k \in 1..(Len(Val(o)) \div 2) : NormPair(Val(o), units, k)[1] <= i /\ i < NormPair(Val(o), units, k)[2]}
Included == Inside(lastop.args.include, lastop.args.includeunits)
Excluded == Inside(lastop.args.exclude, lastop.args.excludeunits)

\* C8: with an even-length exclusion list, every sample strictly inside a pair of it is
\* excluded in the mask passed to the fitter, whatever the inclusion list and the window.
ExclusionDominance == (FitReached /\ EvenList(lastop.args.exclude)) => \A i \in StrictlyInside(lastop.args.exclude, lastop.args.excludeunits) : PassedMask[i + 1]

\* C8 witness: a valid sample inside the window and inside an inclusion pair is excluded by an exclusion pair given in reverse order.
ExclusionDominanceWitness == FitReached /\ EvenList(lastop.args.exclude) /\ EvenList(lastop.args.include) /\ \E i \in StrictlyInside(lastop.args.exclude, lastop.args.excludeunits) \cap Included : ~nan[i + 1] /\ bx1 <= i /\ i < bx2 /\ PassedMask[i + 1] /\ Val(lastop.args.exclude)[1] > Val(lastop.args.exclude)[2]

\* C9: with an even-length inclusion list and an exclusion list (none, or even-length) that do not overlap,
\* every valid sample inside an inclusion pair, inside the window and outside every exclusion pair
\* is included in the mask passed to the fitter, and every sample outside all inclusion pairs is excluded.
InclusionUnexcludes ==
  (FitReached /\ EvenList(lastop.args.include) /\ (IsNone(lastop.args.exclude) \/ EvenList(lastop.args.exclude)) /\ Included \cap Excluded = {})
  => \A i \in 0..(Len(data) - 1) : /\ (i \in Included /\ ~nan[i + 1] /\ bx1 <= i /\ i < bx2 /\ i \notin Excluded) => ~PassedMask[i + 1]
                                   /\ (i \notin Included) => PassedMask[i + 1]

\* C9 witness: with disjoint non-empty lists, one sample is included and another, outside the inclusion pairs, is excluded only for that.
InclusionWitness == FitReached /\ EvenList(lastop.args.include) /\ EvenList(lastop.args.exclude) /\ Included # {} /\ Excluded # {} /\ Included \cap Excluded = {} /\ (\E i \in Included : ~PassedMask[i + 1]) /\ (\E j \in 0..(Len(data) - 1) : j \notin Included /\ j \notin Excluded /\ ~nan[j + 1] /\ bx1 <= j /\ j < bx2 /\ PassedMask[j + 1])

\* C10 as stated: with excludefit=True and a feature model, every sample the feature mask flags is excluded in the mask passed to the fitter.
FeatureExcluded == (FitReached /\ ~IsNone(lastop.feat)) => \A i \in 1..Len(PassedMask) : Val(lastop.feat)[i] => PassedMask[i]

\* The last operation is a fit call given a non-empty inclusion list of an even number of endpoints.
FitWithInclusion == lastop.name = "call" /\ EvenList(lastop.args.include) /\ Len(Val(lastop.args.include)) > 0

\* C11 as stated: after a fit with a non-empty inclusion list the window contains the window
\* selectregion left before the inclusion step (bx1 has not increased, bx2 has not decreased)
\* and contains every endpoint of the inclusion intervals.
InclusionGrowsWindow == FitWithInclusion => (bx1 <= lastop.win[1] /\ bx2 >= lastop.win[2] /\ \A k \in 1..Len(includepix) : bx1 <= includepix[k] /\ includepix[k] <= bx2)

\* C12 as stated: whatever selectregion calls, fits and crops were made, the window satisfies
\* 0 <= bx1 <= bx2 <= N, with N the current length of the host series.
WindowInvariant == 0 <= bx1 /\ bx1 <= bx2 /\ bx2 <= Len(data)

\* An inclusion list with an odd number of endpoints.
OddInclusion(a) == ~IsNone(a.include) /\ Len(Val(a.include)) % 2 = 1

\* The exclusion mask the fit call with the keywords a and the feature mask feat leaves
\* when its inclusion list is not applied: the starting mask with the exclusion intervals set.
MaskWithoutInclusion(a, feat) == ExcludeStep([Cur EXCEPT !.excludemask = IF IsNone(feat) THEN Fill(excludemask, FALSE) ELSE Val(feat)], a).excludemask

\* C13 as stated: a fit given an inclusion list with an odd number of endpoints does not stop on it,
\* keeps includepix and includevelo as they were, and leaves the exclusion mask the call would
\* leave without that list (not a mask set to all-excluded).
MalformedInclusionIgnored ==
  [][(lastop'.name = "call" /\ OddInclusion(lastop'.args))
      => /\ lastop'.stage # "includepix"
         /\ includepix' = includepix /\ includevelo' = includevelo
         /\ excludemask' = MaskWithoutInclusion(lastop'.args, lastop'.feat)]_vars

\* basespec, excludemask and OKmask have the length of the host series.
AlignedLengths == Len(basespec) = Len(data) /\ Len(excludemask) = Len(data) /\ Len(OKmask) = Len(data)

\* C14: crop(x1, x2) with 0 <= x1 <= x2 <= N leaves basespec, excludemask and OKmask of length x2 - x1
\* with entry i equal to the entry x1 + i before the crop; after every operation the three arrays
\* have the length of the host series, and no fit call stops on a length mismatch.
CropKeepsAlignment ==
  [][/\ (lastop'.name = "crop") =>
          LET x1 == lastop'.args[1] x2 == lastop'.args[2]
          IN  (0 <= x1 /\ x1 <= x2 /\ x2 <= Len(data)) =>
                /\ Len(basespec') = x2 - x1 /\ Len(excludemask') = x2 - x1 /\ Len(OKmask') = x2 - x1
                /\ \A i \in 1..(x2 - x1) : basespec'[i] = basespec[x1 + i] /\ excludemask'[i] = excludemask[x1 + i] /\ OKmask'[i] = OKmask[x1 + i]
     /\ AlignedLengths'
     /\ (lastop'.name = "call") => lastop'.stage # "length"]_vars

\* C14 witness: a fit has returned on a series cropped from its first sample on, with a curve that is not constant.
CropThenFitWitness == FitReturned /\ Len(data) = NSamples - 1 /\ xarr[1] # Coords(NSamples)[1] /\ AlignedLengths /\ basespec[1] # basespec[Len(basespec)]

\* C15 as stated: when mpfit reports a statistic that is NaN or infinite, the fit call fails
\* and basespec and baselinepars are as they were before it.
NonFiniteMetricFatal ==
  [][(lastop'.name = "call" /\ ~IsNone(lastop'.fnorm) /\ Val(lastop'.fnorm) \in {"nan", "inf"})
      => (~lastop'.ok /\ UNCHANGED <<basespec, baselinepars>>)]_vars

\* The finite samples the last fit call left unmasked for the minimizer.
Unmasked == {i \in 1..Len(PassedMask) : FitOK(PassedMask, lastop.args)[i] /\ ~nan[i] /\ ~inf[i]}

\* C16 as stated: a power-law fit with an unmasked sample that is zero or negative fails,
\* and mpfit is not called (it reports no statistic).
PowerLawPrecondition == (FitReached /\ lastop.args.powerlaw /\ \E i \in Unmasked : spectofit[i] <= 0) => (~lastop.ok /\ IsNone(lastop.fnorm))

\* C17 as stated: every NaN or infinite sample is excluded in the mask passed to the fitter,
\* and the fit goes on past the check of the samples.
InvalidSamplesMasked == FitReached => ((\A i \in 1..Len(PassedMask) : (nan[i] \/ inf[i]) => PassedMask[i]) /\ lastop.stage # "debugger")

\* C18 as stated: a fit call that fails after a fit was stored leaves baselinepars, basespec, order
\* and powerlaw as they were before it, so a stored polynomial still has order + 1 parameters.
FailedFitKeepsRecord ==
  [][(lastop'.name = "call" /\ ~lastop'.ok /\ ~IsNone(baselinepars))
      => /\ UNCHANGED <<baselinepars, basespec, order, powerlaw>>
         /\ (~IsNone(baselinepars') /\ ~powerlaw') => Len(Val(baselinepars')) = Val(order') + 1]_vars

\* C19: after every fit call that returned, basespec has one entry for every sample of the host
\* series, and entry i is the model of the stored parameters at the coordinate of sample i,
\* whether or not the sample was masked or outside the window.
FullLengthCurve ==
  FitReturned => /\ Len(basespec) = Len(data)
                 /\ \A i \in 1..Len(basespec) : basespec[i] = IF powerlaw THEN PowerLawEval(Val(baselinepars), PixelCoord(i - 1)) ELSE PolyEval(Val(baselinepars), PixelCoord(i - 1))

\* C19 witness: a fit whose first sample was outside the inclusion list and the window, and that
\* kept a NaN sample out, has returned a curve that is not constant.
FullLengthCurveWitness == FitReturned /\ bx1 > 0 /\ PassedMask[1] /\ nan[1] /\ (\E i \in 1..Len(PassedMask) : ~PassedMask[i]) /\ basespec[1] # basespec[Len(basespec)]

\* C20: a fit call and unsubtract() leave the host's coordinates and uncertainties as they were,
\* whatever uncertainties _baseline worked with; crop and downsample leave them as the host's own
\* slice and stride of them.
HostFrame ==
  [][/\ (lastop'.name \in {"call", "unsubtract"}) => UNCHANGED <<xarr, error>>
     /\ (lastop'.name = "crop") => (xarr' = GetSlice(xarr, lastop'.args[1], lastop'.args[2]) /\ error' = GetSlice(error, lastop'.args[1], lastop'.args[2]))
     /\ (lastop'.name = "downsample") => (Len(xarr') = Len(data') /\ Len(error') = Len(data') /\ \A i \in 1..Len(xarr') : \E j \in 1..Len(xarr) : xarr'[i] = xarr[j] /\ error'[i] = error[j])]_vars

\* C20 witness: a fit has returned after _baseline replaced a zero uncertainty by 1 and gave
\* a masked sample the large uncertainty, and the host's uncertainties still hold the zero.
HostFrameWitness == FitReturned /\ ~IsNone(lastop.err) /\ (\E i \in 1..Len(error) : error[i] = 0 /\ Val(lastop.err)[i] = 1) /\ (\E i \in 1..Len(error) : PassedMask[i] /\ Val(lastop.err)[i] = BigErr /\ error[i] # BigErr)

\* C21 as stated: the samples a fit call hands to the minimizer are exactly the samples whose entry
\* in the mask built by dofit is false; xmin and xmax act through bx1 and bx2 only.
FitUsesUnmasked == (lastop.name = "call" /\ ~IsNone(lastop.used)) => \A i \in 1..Len(PassedMask) : Val(lastop.used)[i] = ~PassedMask[i]

\* The pairs of left clicks of the session, each in the order (min, max), as one list.
NormalizedPairs == [j \in 1..(2 * Len(session.pairs)) |-> LET pr == session.pairs[(j + 1) \div 2] IN IF j % 2 = 1 THEN Min2(pr[1], pr[2]) ELSE Max2(pr[1], pr[2])]

\* The samples inside [min, max) of a pair of left clicks of the session.
ClickedRanges == {i \in 0..(Len(data) - 1) : \E k \in 1..Len(session.pairs) : Min2(session.pairs[k][1], session.pairs[k][2]) <= i /\ i < Max2(session.pairs[k][1], session.pairs[k][2])}

\* C22 as stated: after one or more completed pairs of left clicks and a middle or right click,
\* includepix holds every pair as (min, max), and the fit of that click was made with exactly
\* the samples inside [min, max) of a pair un-excluded.
ClicksDriveFit ==
  (lastop.name = "endclick" /\ Len(session.pairs) > 0)
  => (includepix = NormalizedPairs /\ \A i \in 1..Len(excludemask) : excludemask[i] = ((i - 1) \notin ClickedRanges))

\* C23 as stated: a middle or right click leaves nclicks_b1 = 0, and the first left click of a
\* session is taken as a first click: it is left waiting (nclicks_b1 = 1) at its own position.
ArmedClickDiscarded ==
  /\ (lastop.name = "endclick") => nclicks_b1 = 0
  /\ (lastop.name = "click" /\ session.left = 1) => (nclicks_b1 = 1 /\ xclick1 = Some(lastop.args))

=============================================================================
